---- MODULE Spec2Model ----
(***************************************************************************)
(* Model of src/src/scripts/validate_syntax.py: the three validators       *)
(* (syntax, naming conventions, documentation), the per-file aggregator    *)
(* validate_file_comprehensive, the system aggregator                      *)
(* validate_compliance_system and the exit status of the script.           *)
(*                                                                         *)
(* Python strings are sequences of one-character strings, so that          *)
(* startswith, the `in` substring test, islower and isupper are computed   *)
(* on the characters as Python computes them.                              *)
(***************************************************************************)
EXTENDS Integers, Sequences, FiniteSets, TLC

VARIABLES fs, pc, idx, validation_results, exit_status, call

vars == <<fs, pc, idx, validation_results, exit_status, call>>

(***************************************************************************)
(* Bounds of the model.                                                    *)
(***************************************************************************)
\* largest number of statement nodes (declarations and compound statements)
\* in a syntax tree drawn for the single-file specification
MaxNodes == 3
\* number of entries of DeclTable the drawn syntax trees take their nodes from
NumDecls == 9
\* number of entries of CorpusTable an existing file of the system run may hold
CorpusSize == 5

(***************************************************************************)
(* Python str operations.                                                  *)
(***************************************************************************)
Lower == {"a","b","c","d","e","f","g","h","i","j","k","l","m",
          "n","o","p","q","r","s","t","u","v","w","x","y","z","á","ó"}

Upper == {"A","B","C","D","E","F","G","H","I","J","K","L","M",
          "N","O","P","Q","R","S","T","U","V","W","X","Y","Z"}

\* str.startswith(prefix)
startswith(s, prefix) ==
    /\ Len(s) >= Len(prefix)
    /\ SubSeq(s, 1, Len(prefix)) = prefix

\* `sub in s` on strings
contains(s, sub) ==
    \E i \in 1..(Len(s) - Len(sub) + 1) : SubSeq(s, i, i + Len(sub) - 1) = sub

\* str.islower(): at least one cased character and no upper-case character
islower(s) ==
    /\ \E i \in 1..Len(s) : s[i] \in Lower \cup Upper
    /\ \A i \in 1..Len(s) : s[i] \notin Upper

\* str.isupper() of a one-character string
isupper(c) == c \in Upper

\* str.lstrip() of blanks
RECURSIVE lstrip(_)
lstrip(s) == IF s # <<>> /\ Head(s) = " " THEN lstrip(Tail(s)) ELSE s

\* inspect.cleandoc on a one-line docstring: the first line is left-stripped
\* and a line left empty is dropped
cleandoc(text) == lstrip(text)

(***************************************************************************)
(* Message texts of the script.                                            *)
(***************************************************************************)
MsgSintaxisValida == <<"S","i","n","t","a","x","i","s"," ","v","á","l","i","d","a">>
MsgErrorSintaxis == <<"E","r","r","o","r"," ","d","e"," ","s","i","n","t","a","x","i","s",":"," ">>
MsgErrorProcesar == <<"E","r","r","o","r"," ","a","l"," ","p","r","o","c","e","s","a","r"," ","a","r","c","h","i","v","o",":"," ">>
MsgFuncion == <<"F","u","n","c","i","ó","n"," ","'">>
MsgClase == <<"C","l","a","s","e"," ","'">>
MsgNoSnake == <<"'"," ","n","o"," ","s","i","g","u","e"," ","s","n","a","k","e","_","c","a","s","e">>
MsgNoPascal == <<"'"," ","n","o"," ","s","i","g","u","e"," ","P","a","s","c","a","l","C","a","s","e">>
MsgNoDocstring == <<"'"," ","n","o"," ","t","i","e","n","e"," ","d","o","c","s","t","r","i","n","g">>
MsgNoEncabezado == <<"A","r","c","h","i","v","o"," ","n","o"," ","t","i","e","n","e"," ","e","n","c","a","b","e","z","a","d","o"," ","d","e"," ","d","o","c","u","m","e","n","t","a","c","i","ó","n">>
MsgErrorNomenclatura == <<"E","r","r","o","r"," ","a","l"," ","v","a","l","i","d","a","r"," ","n","o","m","e","n","c","l","a","t","u","r","a",":"," ">>
MsgErrorDocumentacion == <<"E","r","r","o","r"," ","a","l"," ","v","a","l","i","d","a","r"," ","d","o","c","u","m","e","n","t","a","c","i","ó","n",":"," ">>

\* the substrings the summary counters look for
KwSnakeCase == <<"s","n","a","k","e","_","c","a","s","e">>
KwPascalCase == <<"P","a","s","c","a","l","C","a","s","e">>
KwDocstring == <<"d","o","c","s","t","r","i","n","g">>
KwDocumentacion == <<"d","o","c","u","m","e","n","t","a","c","i","ó","n">>

TripleDouble == <<"\"","\"","\"">>
TripleSingle == <<"'","'","'">>

\* str(e) of the exception Python raises: ast.parse on malformed text, open on
\* a path that cannot be read
SyntaxErrorText == <<"i","n","v","a","l","i","d"," ","s","y","n","t","a","x"," ","(","<","u","n","k","n","o","w","n",">",","," ","l","i","n","e"," ","1",")">>
OSErrorText == <<"[","E","r","r","n","o"," ","1","3","]"," ","P","e","r","m","i","s","s","i","o","n"," ","d","e","n","i","e","d">>

(***************************************************************************)
(* The file system and the syntax tree.                                    *)
(*                                                                         *)
(* A file is [exists, readable, head, parses, tree]: whether Path.exists() *)
(* holds, whether open/read succeeds, the first characters of the text,    *)
(* whether ast.parse accepts the text, and the tree it then returns.  A    *)
(* tree is the sequence, in document order, of its statement nodes that    *)
(* can hold declarations; parent = 0 is the Module node.  doc is the       *)
(* string constant that is the first statement of the node's body, if any. *)
(***************************************************************************)
NoDoc == [present |-> FALSE, text |-> <<>>]

Doc(text) == [present |-> TRUE, text |-> text]

Decl(type, name, doc) == [type |-> type, name |-> name, doc |-> doc]

\* the declarations and compound statements syntax trees are drawn from
DeclTable == <<
    Decl("FunctionDef", <<"B","a","r">>, NoDoc),
    Decl("ClassDef", <<"m","y","C","l","a","s","s">>, Doc(<<" "," ">>)),
    Decl("FunctionDef", <<"f","o","o">>, Doc(<<"D","o","c",".">>)),
    Decl("If", <<>>, NoDoc),
    Decl("FunctionDef", <<"_","B","a","r">>, Doc(<<>>)),
    Decl("ClassDef", <<"B","a","r">>, NoDoc),
    Decl("FunctionDef", <<"a","_","_","b">>, Doc(<<" ","D","o","c",".">>)),
    Decl("ClassDef", <<"_","B","a","r">>, Doc(<<"D","o","c",".">>)),
    Decl("AsyncFunctionDef", <<"B","a","r">>, NoDoc),
    Decl("FunctionDef", <<"s","n","a","k","e","_","c","a","s","e">>, NoDoc),
    Decl("FunctionDef", <<"f","_","1">>, Doc(<<"D","o","c",".">>)),
    Decl("FunctionDef", <<"_","_","i","n","i","t","_","_">>, NoDoc) >>

Min(a, b) == IF a < b THEN a ELSE b

Decls == {DeclTable[k] : k \in 1..Min(NumDecls, Len(DeclTable))}

RECURSIVE IsAncestorOrSelf(_, _, _)
IsAncestorOrSelf(parent, a, j) ==
    \/ a = j
    \/ j > 0 /\ IsAncestorOrSelf(parent, a, parent[j])

\* the parent assignments of n nodes numbered in document order: the parent
\* of a node is the Module or lies on the path from the Module to the
\* node before it
Parents(n) ==
    {p \in [1..n -> 0..n] :
        /\ \A j \in 1..n : p[j] < j
        /\ \A j \in 2..n : IsAncestorOrSelf(p, p[j], j - 1)}

Node(d, parent) ==
    [type |-> d.type, name |-> d.name, doc |-> d.doc, parent |-> parent]

\* the tree of n nodes with declarations d and parent assignment p
Tree(n, d, p) == [j \in 1..n |-> Node(d[j], p[j])]

\* ast.iter_child_nodes restricted to statement nodes: the children of node
\* n (0 = Module) in field order, which is document order
iter_child_nodes(tree, n) ==
    LET IsChild(j) == tree[j].parent = n
    IN  SelectSeq([j \in 1..Len(tree) |-> j], IsChild)

\* ast.walk: todo = deque([node]); while todo: node = todo.popleft();
\* todo.extend(iter_child_nodes(node)); yield node
\* a walk that takes the children of a node before its later siblings
RECURSIVE walk_stack(_, _)
walk_stack(tree, todo) ==
    IF todo = <<>> THEN <<>>
    ELSE LET node == Head(todo)
         IN  <<node>> \o walk_stack(tree, iter_child_nodes(tree, node) \o Tail(todo))

RECURSIVE walk_todo(_, _)
walk_todo(tree, todo) ==
    IF todo = <<>> THEN <<>>
    ELSE LET node == Head(todo)
         IN  <<node>> \o walk_todo(tree, Tail(todo) \o iter_child_nodes(tree, node))

ast_walk(tree) == walk_todo(tree, <<0>>)

\* isinstance(node, ast.<type>); the Module node 0 is of neither type
isinstance(tree, node, type) == node # 0 /\ tree[node].type = type

\* ast.get_docstring(node): None unless the body starts with a string
\* constant, else its text cleaned by inspect.cleandoc
get_docstring(node) ==
    IF node.doc.present
    THEN [none |-> FALSE, text |-> cleandoc(node.doc.text)]
    ELSE [none |-> TRUE, text |-> <<>>]

\* Python truthiness of an Optional[str]: None and "" are false
truthy(optstr) == ~optstr.none /\ optstr.text # <<>>

\* with open(file_path) as file: content = file.read()
read_content(file_path) ==
    IF fs[file_path].readable
    THEN [raised |-> FALSE, exc |-> "", msg |-> <<>>, content |-> fs[file_path].head]
    ELSE [raised |-> TRUE, exc |-> "OSError", msg |-> OSErrorText, content |-> <<>>]

\* ast.parse(content) of the text of file_path
ast_parse(file_path) ==
    IF fs[file_path].parses
    THEN [raised |-> FALSE, exc |-> "", msg |-> <<>>, tree |-> fs[file_path].tree]
    ELSE [raised |-> TRUE, exc |-> "SyntaxError", msg |-> SyntaxErrorText, tree |-> <<>>]

(***************************************************************************)
(* validate_python_syntax                                                  *)
(***************************************************************************)
validate_python_syntax(file_path) ==
    LET r == read_content(file_path)
        t == ast_parse(file_path)
    IN  IF r.raised
        THEN [valid |-> FALSE, message |-> MsgErrorProcesar \o r.msg]
        ELSE IF t.raised
        THEN [valid |-> FALSE, message |-> MsgErrorSintaxis \o t.msg]
        ELSE [valid |-> TRUE, message |-> MsgSintaxisValida]

(***************************************************************************)
(* validate_naming_conventions                                             *)
(***************************************************************************)
\* the test on a FunctionDef name: not islower() or '__' in it, and not
\* startswith('_')
\* the same test without the exemption of names that start with '_'
function_name_flagged_no_exemption(name) ==
    ~islower(name) \/ contains(name, <<"_","_">>)

function_name_flagged(name) ==
    /\ ~islower(name) \/ contains(name, <<"_","_">>)
    /\ ~startswith(name, <<"_">>)

\* the test on a ClassDef name: not name[0].isupper()
class_name_flagged(name) == ~isupper(name[1])

\* the body of the loop over ast.walk(tree), folded over the yielded nodes
RECURSIVE naming_loop(_, _, _)
naming_loop(tree, nodes, warnings) ==
    IF nodes = <<>> THEN warnings
    ELSE LET node == Head(nodes)
             next ==
                 IF isinstance(tree, node, "FunctionDef")
                 THEN IF function_name_flagged(tree[node].name)
                      THEN Append(warnings, MsgFuncion \o tree[node].name \o MsgNoSnake)
                      ELSE warnings
                 ELSE IF isinstance(tree, node, "ClassDef")
                 THEN IF class_name_flagged(tree[node].name)
                      THEN Append(warnings, MsgClase \o tree[node].name \o MsgNoPascal)
                      ELSE warnings
                 ELSE warnings
         IN  naming_loop(tree, Tail(nodes), next)

validate_naming_conventions(file_path) ==
    LET r == read_content(file_path)
        t == ast_parse(file_path)
    IN  IF r.raised
        THEN [valid |-> FALSE, warnings |-> <<MsgErrorNomenclatura \o r.msg>>]
        ELSE IF t.raised
        THEN [valid |-> FALSE, warnings |-> <<MsgErrorNomenclatura \o t.msg>>]
        ELSE LET warnings == naming_loop(t.tree, ast_walk(t.tree), <<>>)
             IN  [valid |-> Len(warnings) = 0, warnings |-> warnings]

(***************************************************************************)
(* validate_documentation                                                  *)
(***************************************************************************)
\* ast.get_docstring(node) is None
lacks_docstring_is_none(node) == get_docstring(node).none

\* not ast.get_docstring(node)
lacks_docstring(node) == ~truthy(get_docstring(node))

\* not content.startswith(three double quotes) and not
\* content.startswith(three single quotes)
lacks_header(content) ==
    ~startswith(content, TripleDouble) /\ ~startswith(content, TripleSingle)

RECURSIVE documentation_loop(_, _, _)
documentation_loop(tree, nodes, warnings) ==
    IF nodes = <<>> THEN warnings
    ELSE LET node == Head(nodes)
             next ==
                 IF isinstance(tree, node, "FunctionDef")
                 THEN IF lacks_docstring(tree[node])
                      THEN Append(warnings, MsgFuncion \o tree[node].name \o MsgNoDocstring)
                      ELSE warnings
                 ELSE IF isinstance(tree, node, "ClassDef")
                 THEN IF lacks_docstring(tree[node])
                      THEN Append(warnings, MsgClase \o tree[node].name \o MsgNoDocstring)
                      ELSE warnings
                 ELSE warnings
         IN  documentation_loop(tree, Tail(nodes), next)

validate_documentation(file_path) ==
    LET r == read_content(file_path)
        t == ast_parse(file_path)
    IN  IF r.raised
        THEN [valid |-> FALSE, warnings |-> <<MsgErrorDocumentacion \o r.msg>>]
        ELSE IF t.raised
        THEN [valid |-> FALSE, warnings |-> <<MsgErrorDocumentacion \o t.msg>>]
        ELSE LET declared == documentation_loop(t.tree, ast_walk(t.tree), <<>>)
                 warnings == IF lacks_header(r.content)
                             THEN Append(declared, MsgNoEncabezado)
                             ELSE declared
             IN  [valid |-> Len(warnings) = 0, warnings |-> warnings]

(***************************************************************************)
(* validate_file_comprehensive                                             *)
(***************************************************************************)
\* results['overall_valid'] = syntax_valid and naming_valid and doc_valid
overall_of_without_doc(syntax_valid, naming_valid, doc_valid) ==
    syntax_valid /\ naming_valid

overall_of(syntax_valid, naming_valid, doc_valid) ==
    syntax_valid /\ naming_valid /\ doc_valid

\* results['errors'] if the message were appended unconditionally
errors_of_always(syntax) == <<syntax.message>>

\* results['errors'] after `if not syntax_valid: append(syntax_msg)`
errors_of(syntax) == IF ~syntax.valid THEN <<syntax.message>> ELSE <<>>

\* results['warnings'] after the two extend calls
warnings_of(naming_warnings, doc_warnings) == naming_warnings \o doc_warnings

\* validate_file_comprehensive if it returned as soon as the syntax is invalid
validate_file_short_circuit(file_path) ==
    LET syntax == validate_python_syntax(file_path)
        naming == validate_naming_conventions(file_path)
        doc == validate_documentation(file_path)
    IN  IF ~syntax.valid
        THEN [file_path |-> file_path,
              syntax_valid |-> FALSE,
              naming_valid |-> FALSE,
              documentation_valid |-> FALSE,
              overall_valid |-> FALSE,
              errors |-> errors_of(syntax),
              warnings |-> <<>>]
        ELSE [file_path |-> file_path,
              syntax_valid |-> syntax.valid,
              naming_valid |-> naming.valid,
              documentation_valid |-> doc.valid,
              overall_valid |-> overall_of(syntax.valid, naming.valid, doc.valid),
              errors |-> errors_of(syntax),
              warnings |-> warnings_of(naming.warnings, doc.warnings)]

validate_file_comprehensive(file_path) ==
    LET syntax == validate_python_syntax(file_path)
        naming == validate_naming_conventions(file_path)
        doc == validate_documentation(file_path)
    IN  [file_path |-> file_path,
         syntax_valid |-> syntax.valid,
         naming_valid |-> naming.valid,
         documentation_valid |-> doc.valid,
         overall_valid |-> overall_of(syntax.valid, naming.valid, doc.valid),
         errors |-> errors_of(syntax),
         warnings |-> warnings_of(naming.warnings, doc.warnings)]

(***************************************************************************)
(* validate_compliance_system and the script's main block                  *)
(***************************************************************************)
\* files_to_validate, relative to D:/inventario_app2/src
files_to_validate == <<
    "compliance/models/compliance_models.py",
    "compliance/models/__init__.py",
    "compliance/__init__.py",
    "compliance/utils/__init__.py",
    "config/compliance_config.py" >>

Paths == {files_to_validate[k] : k \in 1..Len(files_to_validate)}

\* validation_results as constructed before the loop
initial_results ==
    [total_files |-> Len(files_to_validate),
     valid_files |-> 0,
     invalid_files |-> 0,
     files_results |-> <<>>,
     overall_valid |-> FALSE,
     summary |-> [syntax_errors |-> 0,
                  naming_warnings |-> 0,
                  documentation_warnings |-> 0]]

\* len([w for w in result['warnings'] if 'snake_case' in w or 'PascalCase' in w])
count_naming(warnings) ==
    LET Match(w) == contains(w, KwSnakeCase) \/ contains(w, KwPascalCase)
    IN  Len(SelectSeq(warnings, Match))

\* len([w for w in result['warnings'] if 'docstring' in w or 'documentación' in w])
count_documentation(warnings) ==
    LET Match(w) == contains(w, KwDocstring) \/ contains(w, KwDocumentacion)
    IN  Len(SelectSeq(warnings, Match))

\* files_results if the result were put in front
append_result_front(files_results, result) == <<result>> \o files_results

\* validation_results['files_results'].append(result)
append_result(files_results, result) == Append(files_results, result)

\* the body of `if file_path.exists():` applied to the report so far
fold_result(report, result) ==
    [report EXCEPT
        !.files_results = append_result(@, result),
        !.valid_files = IF result.overall_valid THEN @ + 1 ELSE @,
        !.invalid_files = IF result.overall_valid THEN @ ELSE @ + 1,
        !.summary.syntax_errors = @ + Len(result.errors),
        !.summary.naming_warnings = @ + count_naming(result.warnings),
        !.summary.documentation_warnings = @ + count_documentation(result.warnings)]

\* overall_valid if a run that validated no file did not pass
system_overall_nonempty(report) ==
    report.invalid_files = 0 /\ report.valid_files > 0

\* validation_results['overall_valid'] = validation_results['invalid_files'] == 0
system_overall(report) == report.invalid_files = 0

\* sys.exit(0 if results['overall_valid'] else 1)
exit_code(report) == IF report.overall_valid THEN 0 ELSE 1

\* the values a call of validate_file_comprehensive computes: the returns of
\* the three validators and the dictionary it returns
call_frame(file_path) ==
    [syntax |-> validate_python_syntax(file_path),
     naming |-> validate_naming_conventions(file_path),
     doc |-> validate_documentation(file_path),
     results |-> validate_file_comprehensive(file_path)]

(***************************************************************************)
(* The files the specifications draw.                                      *)
(***************************************************************************)
Missing ==
    [exists |-> FALSE, readable |-> FALSE, head |-> <<>>, parses |-> FALSE, tree |-> <<>>]

Unreadable ==
    [exists |-> TRUE, readable |-> FALSE, head |-> <<>>, parses |-> FALSE, tree |-> <<>>]

Malformed(head) ==
    [exists |-> TRUE, readable |-> TRUE, head |-> head, parses |-> FALSE, tree |-> <<>>]

Parsed(head, tree) ==
    [exists |-> TRUE, readable |-> TRUE, head |-> head, parses |-> TRUE, tree |-> tree]

\* first characters of a text that any module body can follow: a docstring in
\* either quote style, or a comment line
Heads == {TripleDouble, TripleSingle, <<"#","!","/">>}

DocText == <<"d","o","c">>

\* contents of the files of a system run: the malformed text "def foo(:", a
\* function without docstring or header, a documented module, a module with
\* naming violations only, an unreadable path, a function named snake_case,
\* the empty file
CorpusTable == <<
    Malformed(<<"d","e","f">>),
    Parsed(<<"d","e","f">>, <<Node(Decl("FunctionDef", <<"f","o","o">>, NoDoc), 0)>>),
    Parsed(TripleDouble, <<Node(Decl("FunctionDef", <<"f","o","o">>, Doc(DocText)), 0)>>),
    Parsed(TripleDouble,
           <<Node(Decl("ClassDef", <<"m","y","C","l","a","s","s">>, Doc(DocText)), 0),
             Node(Decl("FunctionDef", <<"B","a","r">>, Doc(DocText)), 1)>>),
    Unreadable,
    Parsed(TripleSingle,
           <<Node(Decl("FunctionDef", <<"s","n","a","k","e","_","c","a","s","e">>, NoDoc), 0)>>),
    Parsed(<<>>, <<>>) >>

Corpus == {CorpusTable[k] : k \in 1..Min(CorpusSize, Len(CorpusTable))}

\* what opening and parsing a file comes to
Outcomes == {"parsed", "malformed", "unreadable"}

(***************************************************************************)
(* The system run: Spec.                                                   *)
(***************************************************************************)
Init ==
    /\ fs \in [Paths -> Corpus \cup {Missing}]
    /\ pc = "loop"
    /\ idx = 1
    /\ validation_results = initial_results
    /\ exit_status = <<>>
    /\ call = <<>>

\* one iteration of `for file_path in files_to_validate` on an existing file
ValidateExisting ==
    /\ pc = "loop"
    /\ idx <= Len(files_to_validate)
    /\ fs[files_to_validate[idx]].exists
    /\ LET frame == call_frame(files_to_validate[idx])
       IN  /\ call' = <<frame>>
           /\ validation_results' = fold_result(validation_results, frame.results)
    /\ idx' = idx + 1
    /\ UNCHANGED <<fs, pc, exit_status>>

\* the iteration on a missing file if it counted the file as invalid
SkipMissingCounted ==
    /\ pc = "loop"
    /\ idx <= Len(files_to_validate)
    /\ ~fs[files_to_validate[idx]].exists
    /\ idx' = idx + 1
    /\ validation_results' =
           [validation_results EXCEPT !.invalid_files = @ + 1]
    /\ UNCHANGED <<fs, pc, exit_status, call>>

\* one iteration on a file for which exists() is false
SkipMissing ==
    /\ pc = "loop"
    /\ idx <= Len(files_to_validate)
    /\ ~fs[files_to_validate[idx]].exists
    /\ idx' = idx + 1
    /\ UNCHANGED <<fs, pc, validation_results, exit_status, call>>

\* after the loop: overall_valid is set and the report returned to main
ReturnReport ==
    /\ pc = "loop"
    /\ idx > Len(files_to_validate)
    /\ validation_results' =
           [validation_results EXCEPT !.overall_valid = system_overall(validation_results)]
    /\ pc' = "main"
    /\ UNCHANGED <<fs, idx, exit_status, call>>

\* main: the report is printed and saved, then sys.exit
Exit ==
    /\ pc = "main"
    /\ exit_status' = <<exit_code(validation_results)>>
    /\ pc' = "exited"
    /\ UNCHANGED <<fs, idx, validation_results, call>>

Next == ValidateExisting \/ SkipMissing \/ ReturnReport \/ Exit

Spec == Init /\ [][Next]_vars

(***************************************************************************)
(* One call of validate_file_comprehensive on any file: SpecFile.          *)
(***************************************************************************)
target == files_to_validate[1]

\* the file system in which only the target exists
OnlyTarget(file) == [p \in Paths |-> IF p = target THEN file ELSE Missing]

\* the target is unreadable, or malformed after any head, or parses to any
\* tree of at most MaxNodes nodes after any head
InitFile ==
    /\ \E outcome \in Outcomes, h \in Heads, n \in 0..MaxNodes :
           \E d \in [1..n -> Decls], p \in Parents(n) :
               /\ outcome # "parsed" => n = 0
               /\ outcome = "unreadable" => h = TripleDouble
               /\ fs = OnlyTarget(
                      IF outcome = "parsed" THEN Parsed(h, Tree(n, d, p))
                      ELSE IF outcome = "malformed" THEN Malformed(h)
                      ELSE Unreadable)
    /\ pc = "call"
    /\ idx = 1
    /\ validation_results = initial_results
    /\ exit_status = <<>>
    /\ call = <<>>

CallValidateFile ==
    /\ pc = "call"
    /\ call' = <<call_frame(target)>>
    /\ pc' = "returned"
    /\ UNCHANGED <<fs, idx, validation_results, exit_status>>

NextFile == CallValidateFile

SpecFile == InitFile /\ [][NextFile]_vars

(***************************************************************************)
(* Properties.  The helpers below state what the properties expect,        *)
(* independently of the operators that model the code.                     *)
(***************************************************************************)
Returned == call # <<>>

TargetParses == fs[target].readable /\ fs[target].parses

ReportReturned == pc \in {"main", "exited"}

\* number of positions of seq that hold m
CountIn(seq, m) == Cardinality({k \in 1..Len(seq) : seq[k] = m})

\* number of positions of seq whose entry satisfies P
CountWhere(seq, P(_)) == Cardinality({k \in 1..Len(seq) : P(seq[k])})

\* a file whose content cannot be parsed: unreadable, or rejected by the parser
FailsToParse(file) == file.exists /\ (~file.readable \/ ~file.parses)

\* the listed files among the first k that exist, in list order
ExistingAmongFirst(k) ==
    LET Exists(p) == fs[p].exists
    IN  SelectSeq(SubSeq(files_to_validate, 1, k), Exists)

ResultPaths ==
    [k \in 1..Len(validation_results.files_results) |->
        validation_results.files_results[k].file_path]

\* C1: every result of validate_file_comprehensive has overall_valid equal to
\* syntax_valid AND naming_valid AND documentation_valid, whether or not the
\* file parses.
Thm_C1 ==
    Returned =>
        LET r == call[1].results
        IN  r.overall_valid =
                (r.syntax_valid /\ r.naming_valid /\ r.documentation_valid)

\* a file with valid syntax and names whose documentation alone is invalid
Wit_C1 ==
    /\ Returned
    /\ pc = "returned"
    /\ call[1].results.syntax_valid
    /\ call[1].results.naming_valid
    /\ ~call[1].results.documentation_valid
    /\ ~call[1].results.overall_valid

Thm_C3 ==
    /\ pc = "loop" => ResultPaths = ExistingAmongFirst(idx - 1)
    /\ ReportReturned => ResultPaths = ExistingAmongFirst(Len(files_to_validate))

\* a finished run in which missing files lie between existing ones
Wit_C3 ==
    /\ ReportReturned
    /\ ~fs[files_to_validate[1]].exists
    /\ fs[files_to_validate[2]].exists
    /\ ~fs[files_to_validate[3]].exists
    /\ fs[files_to_validate[4]].exists
    /\ Len(validation_results.files_results) >= 2

\* C4: valid_files and invalid_files count the results with overall_valid
\* true and false, their sum is the number of results and of existing
\* files, total_files is the length of the list, and a run in which every
\* file is missing reports 0 valid, 0 invalid, no results and overall_valid.
Thm_C4 ==
    LET report == validation_results
        IsValid(r) == r.overall_valid
        IsInvalid(r) == ~r.overall_valid
    IN  /\ report.valid_files = CountWhere(report.files_results, IsValid)
        /\ report.invalid_files = CountWhere(report.files_results, IsInvalid)
        /\ report.total_files = Len(files_to_validate)
        /\ ReportReturned =>
               /\ report.valid_files + report.invalid_files = Len(report.files_results)
               /\ Len(report.files_results) = Cardinality({p \in Paths : fs[p].exists})
               /\ (\A p \in Paths : ~fs[p].exists) =>
                      /\ report.valid_files = 0
                      /\ report.invalid_files = 0
                      /\ report.files_results = <<>>
                      /\ report.overall_valid

\* a finished run with a missing file, a valid file and an invalid file
Wit_C4 ==
    /\ pc = "exited"
    /\ \E p \in Paths : ~fs[p].exists
    /\ validation_results.valid_files >= 1
    /\ validation_results.invalid_files >= 1
    /\ validation_results.total_files >
           validation_results.valid_files + validation_results.invalid_files

\* the scenario in which every listed file is missing
AllMissingReported ==
    /\ pc = "exited"
    /\ \A p \in Paths : ~fs[p].exists
    /\ validation_results.overall_valid
    /\ exit_status = <<0>>

(***************************************************************************)
(* What the naming and documentation rules expect of a declaration.        *)
(***************************************************************************)
HasUpper(name) == \E k \in 1..Len(name) : name[k] \in Upper

HasDoubleUnderscore(name) ==
    \E k \in 1..(Len(name) - 1) : name[k] = "_" /\ name[k + 1] = "_"

\* a function name is in violation when it does not begin with an underscore
\* and is not entirely lower-case or holds a double underscore; a class name
\* when its first character is not upper-case
NamingViolation(node) ==
    \/ /\ node.type = "FunctionDef"
       /\ node.name[1] # "_"
       /\ HasUpper(node.name) \/ HasDoubleUnderscore(node.name)
    \/ /\ node.type = "ClassDef"
       /\ node.name[1] \notin Upper

NamingMessage(node) ==
    IF node.type = "FunctionDef"
    THEN MsgFuncion \o node.name \o MsgNoSnake
    ELSE MsgClase \o node.name \o MsgNoPascal

DocumentationMessage(node) ==
    IF node.type = "FunctionDef"
    THEN MsgFuncion \o node.name \o MsgNoDocstring
    ELSE MsgClase \o node.name \o MsgNoDocstring

IsDeclaration(node) == node.type \in {"FunctionDef", "ClassDef"}

\* no documentation string is attached to the declaration
Undocumented(node) == IsDeclaration(node) /\ ~node.doc.present

\* the attached documentation string is empty or holds only blanks
BlankDoc(node) ==
    /\ IsDeclaration(node)
    /\ node.doc.present
    /\ \A k \in 1..Len(node.doc.text) : node.doc.text[k] = " "

\* the raw text begins with a triple-quote delimiter
HasHeader(head) ==
    /\ Len(head) >= 3
    /\ \/ head[1] = "\"" /\ head[2] = "\"" /\ head[3] = "\""
       \/ head[1] = "'" /\ head[2] = "'" /\ head[3] = "'"

\* warnings holds exactly one message Message(node) for each node of tree in
\* Flagged, and `extra` further entries
OnePerNode(warnings, tree, Flagged(_), Message(_), extra) ==
    LET flagged == {j \in 1..Len(tree) : Flagged(tree[j])}
    IN  /\ Len(warnings) = Cardinality(flagged) + extra
        /\ \A j \in flagged :
               CountIn(warnings, Message(tree[j])) =
                   Cardinality({k \in flagged : Message(tree[k]) = Message(tree[j])})

HeaderWarnings(head) == IF HasHeader(head) THEN 0 ELSE 1

NeedsDocWarning(node) == Undocumented(node) \/ BlankDoc(node)

FailureText(file) == IF ~file.readable THEN OSErrorText ELSE SyntaxErrorText

EndsWith(s, suffix) ==
    /\ Len(s) >= Len(suffix)
    /\ SubSeq(s, Len(s) - Len(suffix) + 1, Len(s)) = suffix

\* the result for a file that fails to parse: one error, the parse-failure
\* warning of the naming validator then that of the documentation validator,
\* all flags false
FailureShape(r, file) ==
    /\ ~r.syntax_valid
    /\ Len(r.errors) = 1
    /\ EndsWith(r.errors[1], FailureText(file))
    /\ ~r.naming_valid
    /\ ~r.documentation_valid
    /\ r.warnings = <<MsgErrorNomenclatura \o FailureText(file),
                      MsgErrorDocumentacion \o FailureText(file)>>
    /\ ~r.overall_valid

\* C7: a file whose content fails to parse still gets a result from all
\* three validators: syntax_valid false with one error, naming_valid and
\* documentation_valid false with exactly two warnings (naming's then
\* documentation's parse-failure warning), overall_valid false; and the run
\* goes on to the files after it.
Thm_C7 ==
    LET results == validation_results.files_results
    IN  /\ \A k \in 1..Len(results) :
               FailsToParse(fs[results[k].file_path]) =>
                   FailureShape(results[k], fs[results[k].file_path])
        /\ \A k \in 1..Len(files_to_validate) :
               (k < idx /\ fs[files_to_validate[k]].exists) =>
                   \E j \in 1..Len(results) : results[j].file_path = files_to_validate[k]

\* a finished run whose first file fails to parse and whose last file was
\* validated after it and is valid
Wit_C7 ==
    /\ pc = "exited"
    /\ FailsToParse(fs[files_to_validate[1]])
    /\ Len(validation_results.files_results) = Len(files_to_validate)
    /\ ~validation_results.files_results[1].syntax_valid
    /\ Len(validation_results.files_results[1].warnings) = 2
    /\ validation_results.files_results[Len(files_to_validate)].overall_valid

RECURSIVE Sum(_)
Sum(numbers) == IF numbers = <<>> THEN 0 ELSE Head(numbers) + Sum(Tail(numbers))

SumOver(paths, F(_)) == Sum([k \in 1..Len(paths) |-> F(paths[k])])

\* C8: in the returned report summary.naming_warnings is the number of
\* warnings the naming validator produced over all validated files and
\* summary.documentation_warnings the number the documentation validator
\* produced, so every warning of files_results is counted in exactly one of
\* the two.
Orig_C8 ==
    ReportReturned =>
        LET validated == ExistingAmongFirst(Len(files_to_validate))
            ByNaming(p) == Len(validate_naming_conventions(p).warnings)
            ByDocumentation(p) == Len(validate_documentation(p).warnings)
            InResult(p) == Len(validate_file_comprehensive(p).warnings)
            summary == validation_results.summary
        IN  /\ summary.naming_warnings = SumOver(validated, ByNaming)
            /\ summary.documentation_warnings = SumOver(validated, ByDocumentation)
            /\ summary.naming_warnings + summary.documentation_warnings =
                   SumOver(validated, InResult)

\* the warnings the validators expect of a tree, taken in a given order of
\* its nodes
RECURSIVE NamingAlong(_, _)
NamingAlong(tree, order) ==
    IF order = <<>> THEN <<>>
    ELSE (IF NamingViolation(tree[Head(order)])
          THEN <<NamingMessage(tree[Head(order)])>> ELSE <<>>)
         \o NamingAlong(tree, Tail(order))

RECURSIVE DocumentationAlong(_, _)
DocumentationAlong(tree, order) ==
    IF order = <<>> THEN <<>>
    ELSE (IF NeedsDocWarning(tree[Head(order)])
          THEN <<DocumentationMessage(tree[Head(order)])>> ELSE <<>>)
         \o DocumentationAlong(tree, Tail(order))

HeaderAlong(head) == IF HasHeader(head) THEN <<>> ELSE <<MsgNoEncabezado>>

\* depth-first order: since the nodes are numbered in document order, with
\* every node before the nodes nested in it, this is 1, 2, ..., n
DocumentOrder(tree) == [j \in 1..Len(tree) |-> j]

RECURSIVE Depth(_, _)
Depth(tree, j) == IF j = 0 THEN 0 ELSE 1 + Depth(tree, tree[j].parent)

\* breadth-first order: by depth and, at equal depth, in document order
RECURSIVE LevelsFrom(_, _)
LevelsFrom(tree, d) ==
    IF d > Len(tree) THEN <<>>
    ELSE LET AtDepth(j) == Depth(tree, j) = d
         IN  SelectSeq(DocumentOrder(tree), AtDepth) \o LevelsFrom(tree, d + 1)

LevelOrder(tree) == LevelsFrom(tree, 1)

WarningsAlong(tree, order, head) ==
    NamingAlong(tree, order) \o DocumentationAlong(tree, order) \o HeaderAlong(head)

\* C9 as stated: the warnings of a file result are the naming warnings then
\* the documentation warnings, each in depth-first document order of the
\* declarations (a nested function before a later top-level declaration),
\* the file-header warning last.
Orig_C9 ==
    (Returned /\ TargetParses) =>
        call[1].results.warnings =
            WarningsAlong(fs[target].tree, DocumentOrder(fs[target].tree), fs[target].head)

\* C9 amended: the naming warnings precede the documentation warnings and
\* the header warning is last, but within each validator the declarations
\* are taken breadth-first: by depth in the syntax tree and, at equal depth,
\* in document order, so a nested function comes after a later top-level
\* declaration.
Thm_C9 ==
    (Returned /\ TargetParses) =>
        call[1].results.warnings =
            WarningsAlong(fs[target].tree, LevelOrder(fs[target].tree), fs[target].head)

\* a class holding a function, followed by a top-level function, all three
\* undocumented: the top-level function is reported before the nested one
Wit_C9 ==
    /\ Returned
    /\ TargetParses
    /\ LET tree == fs[target].tree
       IN  /\ Len(tree) = 3
           /\ tree[1].parent = 0 /\ tree[2].parent = 1 /\ tree[3].parent = 0
           /\ tree[1].type = "ClassDef"
           /\ tree[2].type = "FunctionDef"
           /\ tree[3].type = "FunctionDef"
           /\ tree[2].name # tree[3].name
           /\ \A j \in 1..3 : NeedsDocWarning(tree[j])
           /\ \E a, b \in 1..Len(call[1].doc.warnings) :
                  /\ a < b
                  /\ call[1].doc.warnings[a] = DocumentationMessage(tree[3])
                  /\ call[1].doc.warnings[b] = DocumentationMessage(tree[2])

\* C10: every file result has at most one error, and has one iff
\* syntax_valid is false; so summary.syntax_errors is the number of results
\* with syntax_valid false and never exceeds invalid_files.
Thm_C10 ==
    LET results == validation_results.files_results
        SyntaxInvalid(r) == ~r.syntax_valid
    IN  /\ \A k \in 1..Len(results) :
               /\ Len(results[k].errors) <= 1
               /\ results[k].errors # <<>> <=> ~results[k].syntax_valid
        /\ validation_results.summary.syntax_errors = CountWhere(results, SyntaxInvalid)
        /\ validation_results.summary.syntax_errors <= validation_results.invalid_files

\* a finished run with a file of invalid syntax and a file that is invalid
\* for another reason
Wit_C10 ==
    /\ pc = "exited"
    /\ validation_results.summary.syntax_errors >= 1
    /\ validation_results.invalid_files > validation_results.summary.syntax_errors
    /\ validation_results.valid_files >= 1

====
